---- MODULE Spec2Model ----
(***************************************************************************)
(* Travel-plan lifecycle of vibe-travel: the Plan entity, the plan         *)
(* repository on a PostgreSQL table (READ COMMITTED, row locks taken by    *)
(* SELECT ... FOR UPDATE and held until the transaction ends), and the     *)
(* four use cases Generate, CreateOrAccept, GetActive and Update, each     *)
(* request running in its own session on its own task.                     *)
(*                                                                         *)
(* One action is one database statement of a request together with the     *)
(* local computation that follows it up to the next statement.             *)
(***************************************************************************)
EXTENDS Integers, FiniteSets, Sequences, TLC

(***************************************************************************)
(* Bounds of the model.                                                    *)
(***************************************************************************)
\* requests started in one behaviour; every request opens one transaction
MaxRequests == 3

\* settings.PLANS_TEXT_MAX_LENGTH, 5000 in the program, scaled to the texts
\* of the model
PLANS_TEXT_MAX_LENGTH == 2

Procs == {"p1", "p2"}
\* rows of table note and of table user_profile
Notes == {1, 2}
NoteOwner(n) == IF n = 1 THEN "u1" ELSE "u2"
Profiles == {"u1"}
Users == {"u1", "u2"}
\* who asks for which note: each owner for their note, a user for a note of
\* somebody else, and a user for a note that has no row
Callers == {<<1, "u1">>, <<2, "u2">>, <<2, "u1">>, <<3, "u1">>}
\* texts a client may send with CreateOrAccept and with Update, and the text
\* the AI service answers with
Texts == {"t"}
UpdateTexts == {"t", "u"}
AiTexts == {"ai"}
\* texts of any length: the empty text, a text within
\* PLANS_TEXT_MAX_LENGTH and one beyond it
ClientTexts == {"", "t", "long"}
GeneratedTexts == {"ai", "long"}
\* the values uuid4() may draw
GenIds == {1, 2}

\* absent values (Python None)
NoGen == 0
NoText == "None"
NoId == 0

PlanTypeEnum == {"AI", "MANUAL", "HYBRID"}
PlanStatusEnum == {"PENDING_AI", "ACTIVE", "ARCHIVED"}

VARIABLES
    plans,      \* table plan: id -> row
    nextId,     \* sequence behind plan.id
    clock,      \* now() of the next transaction to start
    pc,         \* per task: the statement it executes next
    req,        \* per task: input DTO and session state of its request
    response,   \* the response most recently returned, and to which request
    notes,      \* table note: the ids of the rows it has
    entity,     \* a detached Plan instance the entity methods are applied to
    entityPrev, \* that instance before the last method call
    lastCall,   \* the last method call on it and what it raised
    adapter     \* the OpenRouterService, its last client call and the outcome

vars == <<plans, nextId, clock, pc, req, response, notes, entity, entityPrev, lastCall,
          adapter>>
entityVars == <<entity, entityPrev, lastCall>>

(***************************************************************************)
(* Plan entity (models/plan.py).  A method returns the exception it raises *)
(* ("None" when it returns normally) and the instance as it leaves it.     *)
(***************************************************************************)
NoPlan == [id |-> NoId, note_id |-> 0, plan_text |-> NoText, type |-> "AI",
           status |-> "PENDING_AI", generation_id |-> NoGen,
           created_at |-> 0, updated_at |-> 0]

Raise(exc, self) == [err |-> exc, plan |-> self]
Return(self) == [err |-> "None", plan |-> self]

\* accepting also clears the generation id
accept_ai_proposal_clears_generation(self) ==
    IF self.status # "PENDING_AI"
    THEN Raise("ValueError", self)
    ELSE Return([self EXCEPT !.status = "ACTIVE", !.generation_id = NoGen])

accept_ai_proposal(self) ==
    IF self.status # "PENDING_AI"
    THEN Raise("ValueError", self)
    ELSE Return([self EXCEPT !.status = "ACTIVE"])

\* the status check is missing
accept_ai_proposal_as_hybrid_unguarded(self, new_plan_text) ==
    Return([self EXCEPT !.plan_text = new_plan_text, !.type = "HYBRID", !.status = "ACTIVE"])

accept_ai_proposal_as_hybrid(self, new_plan_text) ==
    IF self.status # "PENDING_AI"
    THEN Raise("ValueError", self)
    ELSE Return([self EXCEPT !.plan_text = new_plan_text,
                             !.type = "HYBRID",
                             !.status = "ACTIVE"])

\* the status check is missing
update_unguarded(self, new_plan_text) ==
    Return([self EXCEPT !.plan_text = new_plan_text,
                        !.type = IF self.type = "AI" THEN "HYBRID" ELSE self.type])

\* every edited plan becomes HYBRID, whatever its type was
update_always_hybrid(self, new_plan_text) ==
    IF self.status # "ACTIVE"
    THEN Raise("ValueError", self)
    ELSE Return([self EXCEPT !.plan_text = new_plan_text, !.type = "HYBRID"])

\* an edit archives the plan
update_archives(self, new_plan_text) ==
    IF self.status # "ACTIVE"
    THEN Raise("ValueError", self)
    ELSE Return([self EXCEPT !.plan_text = new_plan_text,
                             !.type = IF self.type = "AI" THEN "HYBRID" ELSE self.type,
                             !.status = "ARCHIVED"])

update(self, new_plan_text) ==
    IF self.status # "ACTIVE"
    THEN Raise("ValueError", self)
    ELSE Return([self EXCEPT !.plan_text = new_plan_text,
                             !.type = IF self.type = "AI" THEN "HYBRID" ELSE self.type])

\* the method exists and takes the text over but leaves the type as it is
convert_to_hybrid_keeps_type(self, new_plan_text) ==
    Return([self EXCEPT !.plan_text = new_plan_text, !.status = "ACTIVE"])

\* Plan has no attribute convert_to_hybrid: the call raises AttributeError
convert_to_hybrid(self, new_plan_text) == Raise("AttributeError", self)

\* the manual plan is created as a proposal
create_manual_pending(note_id, plan_text) ==
    [NoPlan EXCEPT !.note_id = note_id, !.plan_text = plan_text,
                   !.status = "PENDING_AI", !.type = "MANUAL"]

\* a new instance, not yet persisted: id, generation_id and both timestamps
\* are column defaults filled in by the INSERT
create_manual(note_id, plan_text) ==
    [NoPlan EXCEPT !.note_id = note_id, !.plan_text = plan_text,
                   !.status = "ACTIVE", !.type = "MANUAL"]

\* the proposal is created as the active plan
create_ai_active(note_id, plan_text) ==
    [NoPlan EXCEPT !.note_id = note_id, !.plan_text = plan_text,
                   !.type = "AI", !.status = "ACTIVE"]

create_ai(note_id, plan_text) ==
    [NoPlan EXCEPT !.note_id = note_id, !.plan_text = plan_text,
                   !.status = "PENDING_AI", !.type = "AI"]

(***************************************************************************)
(* Plan repository (repositories/plan_repository.py) on the committed      *)
(* rows.  Every statement of a READ COMMITTED transaction reads the rows   *)
(* committed when it runs.                                                 *)
(***************************************************************************)
PlanIds == DOMAIN plans

\* the status condition is missing
WhereGenerationNote(generation_id, note_id, status) ==
    {i \in PlanIds : /\ plans[i].generation_id = generation_id
                     /\ plans[i].note_id = note_id}

\* the note_id condition is missing
WhereGenerationStatus(generation_id, note_id, status) ==
    {i \in PlanIds : /\ plans[i].generation_id = generation_id
                     /\ plans[i].status = status}

\* the generation_id condition is missing
WhereNoteStatus(generation_id, note_id, status) ==
    {i \in PlanIds : /\ plans[i].note_id = note_id
                     /\ plans[i].status = status}

\* WHERE generation_id = ? AND note_id = ? AND status = ?
WhereGenerationNoteStatus(generation_id, note_id, status) ==
    {i \in PlanIds : /\ plans[i].generation_id = generation_id
                     /\ plans[i].note_id = note_id
                     /\ plans[i].status = status}

\* the plan is looked up whatever its status is
get_by_generation_id_and_note_id(generation_id, note_id, status) ==
    LET rows == {i \in PlanIds : /\ plans[i].generation_id = generation_id
                                 /\ plans[i].note_id = note_id}
    IN  IF rows = {} THEN Raise("PlanNotFoundError", NoPlan)
        ELSE Return(plans[CHOOSE i \in rows : TRUE])

\* the plan is looked up whatever note it belongs to
get_by_generation_id_and_status(generation_id, note_id, status) ==
    LET rows == {i \in PlanIds : /\ plans[i].generation_id = generation_id
                                 /\ plans[i].status = status}
    IN  IF rows = {} THEN Raise("PlanNotFoundError", NoPlan)
        ELSE Return(plans[CHOOSE i \in rows : TRUE])

\* result.scalar_one_or_none() and the PlanNotFoundError raised on None
get_by_generation_id_and_note_id_and_status(generation_id, note_id, status) ==
    LET rows == WhereGenerationNoteStatus(generation_id, note_id, status)
    IN  IF rows = {} THEN Raise("PlanNotFoundError", NoPlan)
        ELSE IF Cardinality(rows) > 1 THEN Raise("MultipleResultsFound", NoPlan)
        ELSE Return(plans[CHOOSE i \in rows : TRUE])

\* ORDER BY updated_at without DESC: the oldest row comes first
get_first_updated_by_note_id_and_status(note_id, status) ==
    LET rows == {i \in PlanIds : plans[i].note_id = note_id /\ plans[i].status = status}
    IN  {plans[i] : i \in {j \in rows : \A k \in rows : plans[j].updated_at <= plans[k].updated_at}}

\* the status condition is missing
get_last_updated_by_note_id(note_id, status) ==
    LET rows == {i \in PlanIds : plans[i].note_id = note_id}
    IN  {plans[i] : i \in {j \in rows : \A k \in rows : plans[k].updated_at <= plans[j].updated_at}}

\* the note_id condition is missing
get_last_updated_by_status(note_id, status) ==
    LET rows == {i \in PlanIds : plans[i].status = status}
    IN  {plans[i] : i \in {j \in rows : \A k \in rows : plans[k].updated_at <= plans[j].updated_at}}

\* WHERE note_id = ? AND status = ? ORDER BY updated_at DESC LIMIT 1:
\* the rows the statement may return (none: the result is None; several:
\* rows tied on updated_at, of which the database returns any one)
get_last_updated_by_note_id_and_status(note_id, status) ==
    LET rows == {i \in PlanIds : plans[i].note_id = note_id /\ plans[i].status = status}
    IN  {plans[i] : i \in {j \in rows : \A k \in rows : plans[k].updated_at <= plans[j].updated_at}}

\* the column is not declared unique
NotUnique(generation_id) == TRUE

\* the UNIQUE constraint on plan.generation_id
UniqueGenerationId(generation_id) ==
    \A i \in PlanIds : plans[i].generation_id # generation_id

\* the column is of unbounded length
VarcharUnbounded(plan_text) == TRUE

\* plan.plan_text is VARCHAR(PLANS_TEXT_MAX_LENGTH): a longer value is
\* refused by the statement that writes it
VarcharFits(plan_text) == Len(plan_text) <= PLANS_TEXT_MAX_LENGTH

\* the FOREIGN KEY constraint of plan.note_id on note.id
ForeignKeyNote(note_id) == note_id \in notes

\* the row an INSERT of a new instance writes: serial id, the uuid4() drawn
\* for generation_id, now() for both timestamps
InsertedRow(plan, id, generation_id, now) ==
    [plan EXCEPT !.id = id, !.generation_id = generation_id,
                 !.created_at = now, !.updated_at = now]

\* the row an UPDATE flushed for a loaded instance writes: the attributes
\* whose value differs from the loaded one, and onupdate now() when there
\* is such an attribute (no UPDATE is emitted otherwise)
FlushedRow(row, loaded, mutated, now) ==
    LET dirty == {c \in DOMAIN row : mutated[c] # loaded[c]}
    IN  [c \in DOMAIN row |->
            IF c \in dirty THEN mutated[c]
            ELSE IF c = "updated_at" /\ dirty # {} THEN now
            ELSE row[c]]

\* row locks of SELECT ... FOR UPDATE, held by the task's open transaction
LockedByOther(p, i) == \E q \in Procs \ {p} : req[q].lock = i

\* the lock DeleteNoteUseCase takes on the note row with its FOR UPDATE
\* lookup and holds until its commit
NoteLockedByOther(p, note_id) ==
    \E q \in Procs \ {p} : pc[q] = "delete_commit" /\ req[q].note_id = note_id

(***************************************************************************)
(* Collaborators.                                                          *)
(***************************************************************************)
\* the user_id condition is missing
NoteFoundOfAnyUser(note_id, user_id) == note_id \in notes

\* NoteRepository.get_by_id: WHERE id = ? AND user_id = ?
NoteFound(note_id, user_id) == note_id \in notes /\ NoteOwner(note_id) = user_id

\* UserProfileRepository.get_user_preferences: {} when the user has no profile
get_user_preferences(user_id) == IF user_id \in Profiles THEN "profile" ELSE "empty"

\* what the adapter's generate_completion raises: the three AIBaseError
\* classes of the ai package, written here with the package's name because
\* the plans package has classes of the same names
AdapterRaises == {"ai.AIServiceTimeoutError", "ai.AIServiceUnavailableError",
                  "ai.AIModelError"}

\* the service hands timeout and unavailable on as the plans package's classes
generate_plan_translates(exc) ==
    CASE exc = "ai.AIServiceTimeoutError" -> "AIServiceTimeoutError"
      [] exc = "ai.AIServiceUnavailableError" -> "AIServiceUnavailableError"
      [] OTHER -> "PlanGenerationError"

\* PlanGenerationService.generate_plan when the adapter raises exc: an
\* AIBaseError and any other exception both become PlanGenerationError
generate_plan(exc) ==
    IF exc \in AdapterRaises THEN "PlanGenerationError" ELSE "PlanGenerationError"

\* GeneratePlanUseCase._generate_plan_text: the plans package's timeout and
\* unavailable pass through, everything else becomes PlanGenerationError
\* with the note id of the request
GenerateRaises(exc) ==
    IF exc \in {"AIServiceTimeoutError", "AIServiceUnavailableError"} THEN exc
    ELSE "PlanGenerationError"

(***************************************************************************)
(* Requests.                                                               *)
(***************************************************************************)
\* overlaps is history: the request ran while another CreateOrAccept on the
\* same pending proposal was in flight
NoReq == [op |-> "none", note_id |-> 0, user_id |-> "u1", generation_id |-> NoGen,
          plan_text |-> NoText, now |-> 0, prefs |-> "none", ent |-> NoPlan,
          lock |-> NoId, overlaps |-> FALSE, calls |-> 0]

NoResponse == [op |-> "none", kind |-> "none", plan |-> NoPlan, generation_id |-> NoGen,
               note_id |-> 0]

\* a request arrives and its first statement, the note lookup, opens the
\* transaction: now() is the transaction's start time from here on
NewReq(op, note_id, user_id, generation_id, plan_text) ==
    [NoReq EXCEPT !.op = op, !.note_id = note_id, !.user_id = user_id,
                  !.generation_id = generation_id, !.plan_text = plan_text,
                  !.now = clock]

\* the DTO returned, or the exception raised; PlanNotFoundError carries the
\* generation_id that was looked up, PlanGenerationError the note_id
Responds(r, kind, plan) ==
    [op |-> r.op, kind |-> kind, plan |-> plan,
     generation_id |-> IF kind = "PlanNotFoundError" THEN r.generation_id ELSE NoGen,
     note_id |-> IF kind = "PlanGenerationError" THEN r.note_id ELSE 0]

\* a request that fails leaves its transaction open: the row lock stays
FinishKeepsLockOnError(p, kind, plan) ==
    /\ pc' = [pc EXCEPT ![p] = "idle"]
    /\ req' = [req EXCEPT ![p] = [NoReq EXCEPT !.lock = IF kind = "ok" THEN NoId
                                                       ELSE req[p].lock]]
    /\ response' = Responds(req[p], kind, plan)

\* the request of task p ends with an exception or a DTO: the session
\* closes, which ends its transaction and releases its row lock
Finish(p, kind, plan) ==
    /\ pc' = [pc EXCEPT ![p] = "idle"]
    /\ req' = [req EXCEPT ![p] = NoReq]
    /\ response' = Responds(req[p], kind, plan)

\* with a generation id the text is not looked at
_select_strategy_ignores_text(generation_id, plan_text) ==
    IF generation_id # NoGen THEN "accept_ai"
    ELSE IF plan_text = NoText THEN "ValueError" ELSE "create_manual"

\* CreateOrAcceptPlanUseCase._select_strategy
_select_strategy(generation_id, plan_text) ==
    IF generation_id # NoGen
    THEN IF plan_text = NoText THEN "accept_ai" ELSE "create_hybrid"
    ELSE IF plan_text = NoText THEN "ValueError" ELSE "create_manual"

\* the query for an ACTIVE plan is never made
_validate_nothing(generation_id, note_id) == "None"

\* CreateOrAcceptPlanUseCase._validate_no_active_plan_conflict
_validate_no_active_plan_conflict(generation_id, note_id) ==
    IF generation_id # NoGen THEN "None"
    ELSE IF get_last_updated_by_note_id_and_status(note_id, "ACTIVE") # {}
         THEN "PlanConflictError"
         ELSE "None"

StrategyPc(strategy) ==
    CASE strategy = "accept_ai" -> "accept_lookup"
      [] strategy = "create_hybrid" -> "hybrid_lookup"
      [] strategy = "create_manual" -> "manual_create"

\* the tasks with a CreateOrAccept in flight on the pending proposal
\* (generation_id, note_id)
InFlightOn(generation_id, note_id) ==
    IF generation_id # NoGen
       /\ WhereGenerationNoteStatus(generation_id, note_id, "PENDING_AI") # {}
    THEN {q \in Procs : /\ req[q].op = "create_or_accept"
                        /\ req[q].generation_id = generation_id
                        /\ req[q].note_id = note_id}
    ELSE {}

CanStart(p) == pc[p] = "idle" /\ clock <= MaxRequests

\* a use case starts with the note lookup; r is the request, next the
\* statement that follows when the note is found
Begin(p, r, next) ==
    /\ CanStart(p)
    /\ clock' = clock + 1
    /\ IF ~NoteFound(r.note_id, r.user_id)
       THEN /\ response' = Responds(r, "NoteNotFoundError", NoPlan)
            /\ UNCHANGED <<pc, req>>
       ELSE LET peers == InFlightOn(r.generation_id, r.note_id)
            IN  /\ pc' = [pc EXCEPT ![p] = next]
                /\ req' = [q \in Procs |->
                            IF q = p THEN [r EXCEPT !.overlaps = (peers # {})]
                            ELSE IF q \in peers THEN [req[q] EXCEPT !.overlaps = TRUE]
                            ELSE req[q]]
                /\ UNCHANGED response
    /\ UNCHANGED <<plans, nextId, entityVars, adapter, notes>>

\* CreateOrAcceptPlanUseCase.execute up to its first plan statement: with a
\* generation_id there is no conflict query and the strategy comes next
CreateOrAcceptBegin(p, note_id, user_id, generation_id, plan_text) ==
    Begin(p, NewReq("create_or_accept", note_id, user_id, generation_id, plan_text),
          IF generation_id # NoGen
          THEN StrategyPc(_select_strategy(generation_id, plan_text))
          ELSE "conflict_check")

\* the conflict query of a request without generation_id, then the choice
\* of the strategy
ConflictCheck(p) ==
    /\ pc[p] = "conflict_check"
    /\ LET conflict == _validate_no_active_plan_conflict(req[p].generation_id, req[p].note_id)
           strategy == _select_strategy(req[p].generation_id, req[p].plan_text)
       IN  IF conflict # "None"
           THEN Finish(p, conflict, NoPlan)
           ELSE IF strategy = "ValueError"
           THEN Finish(p, "ValueError", NoPlan)
           ELSE /\ pc' = [pc EXCEPT ![p] = StrategyPc(strategy)]
                /\ UNCHANGED <<req, response>>
    /\ UNCHANGED <<plans, nextId, clock, entityVars, adapter, notes>>

\* the INSERT of an ACTIVE plan is refused when the note has an ACTIVE plan
CreateUnderActiveConstraint(p, plan) ==
    \E generation_id \in GenIds :
        /\ ~NoteLockedByOther(p, plan.note_id)
        /\ nextId' = nextId + 1
        /\ IF plan.status = "ACTIVE"
              /\ get_last_updated_by_note_id_and_status(plan.note_id, "ACTIVE") # {}
           THEN /\ UNCHANGED plans
                /\ Finish(p, "PlanConflictError", NoPlan)
           ELSE IF UniqueGenerationId(generation_id) /\ ForeignKeyNote(plan.note_id)
           THEN LET row == InsertedRow(plan, nextId, generation_id, req[p].now)
                IN  /\ plans' = plans @@ (nextId :> row)
                    /\ Finish(p, "ok", row)
           ELSE /\ UNCHANGED plans
                /\ Finish(p, "IntegrityError", NoPlan)

\* PlanRepository.create: INSERT and COMMIT, then refresh; the foreign key
\* check of the INSERT waits for a lock held on the note row
Create(p, plan) ==
    \E generation_id \in GenIds :
        /\ ~NoteLockedByOther(p, plan.note_id)
        /\ nextId' = nextId + 1
        /\ IF ~VarcharFits(plan.plan_text)
           THEN /\ UNCHANGED plans
                /\ Finish(p, "DataError", NoPlan)
           ELSE IF UniqueGenerationId(generation_id) /\ ForeignKeyNote(plan.note_id)
           THEN LET row == InsertedRow(plan, nextId, generation_id, req[p].now)
                IN  /\ plans' = plans @@ (nextId :> row)
                    /\ Finish(p, "ok", row)
           ELSE /\ UNCHANGED plans
                /\ Finish(p, "IntegrityError", NoPlan)

\* the changed instance is returned but its changes are never written
UpdatePlanWithoutCommit(p, mutated) ==
    /\ UNCHANGED plans
    /\ Finish(p, "ok", mutated)

\* the changed instance is written as a further row
UpdatePlanAsNewRow(p, mutated) ==
    LET row == [mutated EXCEPT !.id = nextId, !.updated_at = req[p].now]
    IN  /\ ~LockedByOther(p, req[p].ent.id)
        /\ plans' = plans @@ (nextId :> row)
        /\ Finish(p, "ok", row)

\* PlanRepository.update_plan: flush the instance's changes, COMMIT, refresh
UpdatePlan(p, mutated) ==
    LET id == req[p].ent.id
        row == FlushedRow(plans[id], req[p].ent, mutated, req[p].now)
    IN  /\ ~LockedByOther(p, id)
        /\ IF VarcharFits(row.plan_text)
           THEN /\ plans' = [plans EXCEPT ![id] = row]
                /\ Finish(p, "ok", row)
           ELSE /\ UNCHANGED plans
                /\ Finish(p, "DataError", NoPlan)

\* an entity method raised: nothing is flushed and the exception ends the request
Save(p, r) ==
    IF r.err # "None"
    THEN /\ Finish(p, r.err, NoPlan)
         /\ UNCHANGED plans
    ELSE UpdatePlan(p, r.plan)

\* CreateManualPlanStrategy.execute
ManualCreate(p) ==
    /\ pc[p] = "manual_create"
    /\ Create(p, create_manual(req[p].note_id, req[p].plan_text))
    /\ UNCHANGED <<clock, entityVars, adapter, notes>>

\* the FOR UPDATE lookup of the pending proposal: it waits while another
\* transaction holds the lock of a row it matched, and reads that row as
\* committed once the lock is free
ForUpdateLookup(p, next) ==
    LET found == get_by_generation_id_and_note_id_and_status(
                    req[p].generation_id, req[p].note_id, "PENDING_AI")
    IN  /\ \A i \in WhereGenerationNoteStatus(req[p].generation_id, req[p].note_id, "PENDING_AI") :
                ~LockedByOther(p, i)
        /\ IF found.err # "None"
           THEN Finish(p, found.err, NoPlan)
           ELSE /\ req' = [req EXCEPT ![p].ent = found.plan, ![p].lock = found.plan.id]
                /\ pc' = [pc EXCEPT ![p] = next]
                /\ UNCHANGED response
        /\ UNCHANGED <<plans, nextId, clock, entityVars, adapter, notes>>

\* AcceptAIPlanStrategy.execute
AcceptLookup(p) ==
    /\ pc[p] = "accept_lookup"
    /\ ForUpdateLookup(p, "accept_save")

AcceptSave(p) ==
    /\ pc[p] = "accept_save"
    /\ Save(p, accept_ai_proposal(req[p].ent))
    /\ UNCHANGED <<nextId, clock, entityVars, adapter, notes>>

\* CreateHybridPlanStrategy.execute
HybridLookup(p) ==
    /\ pc[p] = "hybrid_lookup"
    /\ ForUpdateLookup(p, "hybrid_save")

HybridSave(p) ==
    /\ pc[p] = "hybrid_save"
    /\ Save(p, convert_to_hybrid(req[p].ent, req[p].plan_text))
    /\ UNCHANGED <<nextId, clock, entityVars, adapter, notes>>

\* UpdatePlanUseCase.execute
UpdateBegin(p, note_id, user_id, plan_text) ==
    Begin(p, NewReq("update", note_id, user_id, NoGen, plan_text), "update_fetch")

\* the plan is fetched whatever its status is
UpdateFetchAnyStatus(p) ==
    /\ pc[p] = "update_fetch"
    /\ LET rows == {plans[i] : i \in {j \in PlanIds : plans[j].note_id = req[p].note_id}}
       IN  IF rows = {}
           THEN Finish(p, "ActivePlanNotFoundError", NoPlan)
           ELSE \E row \in rows :
                /\ req' = [req EXCEPT ![p].ent = row]
                /\ pc' = [pc EXCEPT ![p] = "update_save"]
                /\ UNCHANGED response
    /\ UNCHANGED <<plans, nextId, clock, entityVars, adapter, notes>>

UpdateFetch(p) ==
    /\ pc[p] = "update_fetch"
    /\ LET rows == get_last_updated_by_note_id_and_status(req[p].note_id, "ACTIVE")
       IN  IF rows = {}
           THEN Finish(p, "ActivePlanNotFoundError", NoPlan)
           ELSE \E row \in rows :
                /\ req' = [req EXCEPT ![p].ent = row]
                /\ pc' = [pc EXCEPT ![p] = "update_save"]
                /\ UNCHANGED response
    /\ UNCHANGED <<plans, nextId, clock, entityVars, adapter, notes>>

UpdateSave(p) ==
    /\ pc[p] = "update_save"
    /\ Save(p, update(req[p].ent, req[p].plan_text))
    /\ UNCHANGED <<nextId, clock, entityVars, adapter, notes>>

\* GetActivePlanUseCase.execute
GetActiveBegin(p, note_id, user_id) ==
    Begin(p, NewReq("get_active", note_id, user_id, NoGen, NoText), "get_active_fetch")

GetActiveFetch(p) ==
    /\ pc[p] = "get_active_fetch"
    /\ LET rows == get_last_updated_by_note_id_and_status(req[p].note_id, "ACTIVE")
       IN  IF rows = {}
           THEN Finish(p, "ActivePlanNotFoundError", NoPlan)
           ELSE \E row \in rows : Finish(p, "ok", row)
    /\ UNCHANGED <<plans, nextId, clock, entityVars, adapter, notes>>

\* GeneratePlanUseCase.execute
GenerateBegin(p, note_id, user_id) ==
    Begin(p, NewReq("generate", note_id, user_id, NoGen, NoText), "generate_text")

\* a failed adapter call is repeated once before the request gives up
GenerateTextRetries(p) ==
    /\ pc[p] = "generate_text"
    /\ \/ \E text \in AiTexts :
            /\ req' = [req EXCEPT ![p].prefs = get_user_preferences(req[p].user_id),
                                  ![p].plan_text = text,
                                  ![p].calls = @ + 1]
            /\ pc' = [pc EXCEPT ![p] = "generate_store"]
            /\ UNCHANGED response
       \/ \E exc \in AdapterRaises :
            IF req[p].calls = 0
            THEN /\ req' = [req EXCEPT ![p].calls = @ + 1]
                 /\ UNCHANGED <<pc, response>>
            ELSE Finish(p, GenerateRaises(generate_plan(exc)), NoPlan)
    /\ UNCHANGED <<plans, nextId, clock, entityVars, adapter, notes>>

\* the profile lookup, then the one call of the generation service, which
\* makes the one call of the adapter; calls counts the adapter calls of the
\* request
GenerateTextFrom(p, texts) ==
    /\ pc[p] = "generate_text"
    /\ \/ \E text \in texts :
            /\ req' = [req EXCEPT ![p].prefs = get_user_preferences(req[p].user_id),
                                  ![p].plan_text = text,
                                  ![p].calls = @ + 1]
            /\ pc' = [pc EXCEPT ![p] = "generate_store"]
            /\ UNCHANGED response
       \/ \E exc \in AdapterRaises : Finish(p, GenerateRaises(generate_plan(exc)), NoPlan)
    /\ UNCHANGED <<plans, nextId, clock, entityVars, adapter, notes>>

GenerateText(p) == GenerateTextFrom(p, AiTexts)

\* the service answers with a text of any length
GenerateAnyText(p) == GenerateTextFrom(p, GeneratedTexts)

GenerateStore(p) ==
    /\ pc[p] = "generate_store"
    /\ Create(p, create_ai(req[p].note_id, req[p].plan_text))
    /\ UNCHANGED <<clock, entityVars, adapter, notes>>

\* DeleteNoteUseCase.execute: the note lookup is a FOR UPDATE and waits for
\* another holder of the note's row lock
DeleteNoteBegin(p, note_id, user_id) ==
    /\ ~NoteLockedByOther(p, note_id)
    /\ Begin(p, NewReq("delete_note", note_id, user_id, NoGen, NoText), "delete_commit")

\* the plans of the note stay, with a note_id that has no row any more
DeleteNoteWithoutCascade(p) ==
    /\ pc[p] = "delete_commit"
    /\ \A i \in PlanIds : plans[i].note_id = req[p].note_id => ~LockedByOther(p, i)
    /\ notes' = notes \ {req[p].note_id}
    /\ Finish(p, "ok", NoPlan)
    /\ UNCHANGED <<plans, nextId, clock, entityVars, adapter>>

\* NoteRepository.delete: session.delete and COMMIT.  The DELETE of a plan
\* row waits for a lock held on it; the plans of the note go with the note,
\* by the relationship's cascade and by ON DELETE CASCADE of plan.note_id
DeleteNoteCommit(p) ==
    /\ pc[p] = "delete_commit"
    /\ \A i \in PlanIds : plans[i].note_id = req[p].note_id => ~LockedByOther(p, i)
    /\ notes' = notes \ {req[p].note_id}
    /\ plans' = [i \in {j \in PlanIds : plans[j].note_id # req[p].note_id} |-> plans[i]]
    /\ Finish(p, "ok", NoPlan)
    /\ UNCHANGED <<nextId, clock, entityVars, adapter>>

\* the state after start-up: an empty plan table and no request in flight
(***************************************************************************)
(* AI adapter (insfrastructure/ai/services/openrouter_service.py).  The     *)
(* constructor and generate_completion return the exception they raise     *)
(* ("None" when they return normally) with its message, and the text.      *)
(***************************************************************************)
\* api_key and timeout_seconds the service is constructed with
ApiKeys == {"", "key"}
TimeoutSeconds == {5, 30, 60}

\* message.content of a choice: None, empty or a text
Contents == {NoText, ""} \cup GeneratedTexts

\* completion.choices: no choice, or up to MaxChoices of them
MaxChoices == 2
Completions == UNION {[1..n -> Contents] : n \in 0..MaxChoices}

\* str(exc) of an exception the client raises
Messages == {"", "boom"}

\* the classes of exception the awaited client call raises, and each one's
\* base class on the way up to Exception
ClientRaises == {"TimeoutError", "ConnectionError", "ConnectionRefusedError",
                 "OSError", "RuntimeError", "ValueError"}

Base(cls) ==
    CASE cls = "ConnectionRefusedError" -> "ConnectionError"
      [] cls \in {"TimeoutError", "ConnectionError"} -> "OSError"
      [] OTHER -> "Exception"

\* whether an except clause naming cls catches exc
RECURSIVE IsInstance(_, _)
IsInstance(exc, cls) == exc = cls \/ (exc # "Exception" /\ IsInstance(Base(exc), cls))

\* client.chat.completions.create: it returns a completion or it raises
ClientOutcomes ==
    {[raises |-> "None", message |-> "", choices |-> c] : c \in Completions}
    \cup {[raises |-> e, message |-> m, choices |-> <<>>] : e \in ClientRaises, m \in Messages}

AdapterReturn(text) ==
    [err |-> "None", value |-> text, message |-> "", timeout_seconds |-> 0]

AdapterRaise(exc, message, timeout_seconds) ==
    [err |-> exc, value |-> NoText, message |-> message, timeout_seconds |-> timeout_seconds]

\* the first choice's content is returned whatever it is
validate_response_any_content(choices) ==
    IF Len(choices) = 0
    THEN AdapterRaise("ai.AIModelError", "Empty response from AI service", 0)
    ELSE AdapterReturn(choices[1])

\* _validate_response: no choices, or a first choice whose content is None
\* or empty, raises AIModelError; otherwise the first choice's content
validate_response(choices) ==
    IF Len(choices) = 0 \/ choices[1] \in {NoText, ""}
    THEN AdapterRaise("ai.AIModelError", "Empty response from AI service", 0)
    ELSE AdapterReturn(choices[1])

\* generate_completion: the client call and _validate_response run inside
\* the try, so the AIModelError of _validate_response reaches the except
\* clauses too and leaves as an AIModelError with the same message; the
\* clauses are tried in the order of the code
generate_completion(self, outcome) ==
    LET tried == IF outcome.raises # "None"
                 THEN AdapterRaise(outcome.raises, outcome.message, 0)
                 ELSE validate_response(outcome.choices)
    IN  IF tried.err = "None" THEN tried
        ELSE IF IsInstance(tried.err, "TimeoutError")
        THEN AdapterRaise("ai.AIServiceTimeoutError", "AI service request timed out",
                          self.timeout_seconds)
        ELSE IF IsInstance(tried.err, "ConnectionError")
        THEN AdapterRaise("ai.AIServiceUnavailableError",
                          "AI service is currently unavailable", 0)
        ELSE AdapterRaise("ai.AIModelError", tried.message, 0)

NoOutcome == [raises |-> "None", message |-> "", choices |-> <<>>]

NoAdapter == [constructed |-> FALSE, timeout_seconds |-> 0, called |-> FALSE,
              outcome |-> NoOutcome, result |-> AdapterReturn(NoText)]

StoreInit ==
    /\ notes = Notes
    /\ plans = <<>>
    /\ nextId = 1
    /\ clock = 1
    /\ pc = [p \in Procs |-> "idle"]
    /\ req = [p \in Procs |-> NoReq]
    /\ response = NoResponse

NoCall == [op |-> "none", err |-> "None", made |-> FALSE]

Init ==
    /\ StoreInit
    /\ entity = NoPlan
    /\ entityPrev = NoPlan
    /\ lastCall = NoCall
    /\ adapter = NoAdapter

Next ==
    \E p \in Procs :
        \/ \E c \in Callers, g \in GenIds \cup {NoGen}, t \in Texts \cup {NoText} :
                CreateOrAcceptBegin(p, c[1], c[2], g, t)
        \/ ConflictCheck(p)
        \/ ManualCreate(p)
        \/ AcceptLookup(p)
        \/ AcceptSave(p)
        \/ HybridLookup(p)
        \/ HybridSave(p)
        \/ \E c \in Callers, t \in UpdateTexts : UpdateBegin(p, c[1], c[2], t)
        \/ UpdateFetch(p)
        \/ UpdateSave(p)
        \/ \E c \in Callers : GetActiveBegin(p, c[1], c[2])
        \/ GetActiveFetch(p)
        \/ \E c \in Callers : GenerateBegin(p, c[1], c[2])
        \/ GenerateText(p)
        \/ GenerateStore(p)

Spec == Init /\ [][Next]_vars

\* Generate and CreateOrAccept alone on one note, the requests that take
\* or wait for the row lock of a proposal, with the scheduling they run
\* under: the event loop runs every task that is ready, and a statement
\* waiting for a row lock runs once the lock is free
AcceptCallers == {<<1, "u1">>, <<2, "u1">>}

AcceptProceed(p) ==
    \/ ConflictCheck(p)
    \/ ManualCreate(p)
    \/ AcceptLookup(p)
    \/ AcceptSave(p)
    \/ HybridLookup(p)
    \/ HybridSave(p)
    \/ GenerateText(p)
    \/ GenerateStore(p)

AcceptNext ==
    \E p \in Procs :
        \/ \E c \in AcceptCallers, g \in GenIds \cup {NoGen}, t \in Texts \cup {NoText} :
                CreateOrAcceptBegin(p, c[1], c[2], g, t)
        \/ \E c \in AcceptCallers : GenerateBegin(p, c[1], c[2])
        \/ ConflictCheck(p)
        \/ ManualCreate(p)
        \/ AcceptLookup(p)
        \/ AcceptSave(p)
        \/ HybridLookup(p)
        \/ HybridSave(p)
        \/ GenerateText(p)
        \/ GenerateStore(p)

AcceptFairSpec == Init /\ [][AcceptNext]_vars /\ \A p \in Procs : WF_vars(AcceptProceed(p))

\* Generate and CreateOrAccept beside the deletion of notes by their owners
DeleteCallers == {<<1, "u1">>, <<2, "u2">>}

DeleteNext ==
    \E p \in Procs :
        \/ \E c \in DeleteCallers : DeleteNoteBegin(p, c[1], c[2])
        \/ DeleteNoteCommit(p)
        \/ \E c \in DeleteCallers, g \in GenIds \cup {NoGen}, t \in Texts \cup {NoText} :
                CreateOrAcceptBegin(p, c[1], c[2], g, t)
        \/ \E c \in DeleteCallers : GenerateBegin(p, c[1], c[2])
        \/ ConflictCheck(p)
        \/ ManualCreate(p)
        \/ AcceptLookup(p)
        \/ AcceptSave(p)
        \/ HybridLookup(p)
        \/ HybridSave(p)
        \/ GenerateText(p)
        \/ GenerateStore(p)

DeleteSpec == Init /\ [][DeleteNext]_vars

\* the use cases on one note with texts of any length, the empty text
\* among them
TextCallers == {<<1, "u1">>}

TextNext ==
    \E p \in Procs :
        \/ \E c \in TextCallers, g \in GenIds \cup {NoGen}, t \in ClientTexts \cup {NoText} :
                CreateOrAcceptBegin(p, c[1], c[2], g, t)
        \/ \E c \in TextCallers, t \in ClientTexts : UpdateBegin(p, c[1], c[2], t)
        \/ \E c \in TextCallers : GenerateBegin(p, c[1], c[2])
        \/ ConflictCheck(p)
        \/ ManualCreate(p)
        \/ AcceptLookup(p)
        \/ AcceptSave(p)
        \/ HybridLookup(p)
        \/ HybridSave(p)
        \/ UpdateFetch(p)
        \/ UpdateSave(p)
        \/ GenerateAnyText(p)
        \/ GenerateStore(p)

TextSpec == Init /\ [][TextNext]_vars

(***************************************************************************)
(* The entity methods on their own: a Plan instance in any type and status *)
(* the constructor accepts, or one made by a factory method, and any       *)
(* sequence of method calls on it.  lastCall.made tells that the instance  *)
(* comes from create_manual or create_ai.                                  *)
(***************************************************************************)
storeVars == <<plans, nextId, clock, pc, req, response, notes>>

EntityInputs ==
    {[NoPlan EXCEPT !.id = 1, !.note_id = 1, !.generation_id = 1,
                    !.created_at = 1, !.updated_at = 1,
                    !.plan_text = t, !.type = ty, !.status = st] :
        t \in AiTexts \cup Texts \cup UpdateTexts, ty \in PlanTypeEnum, st \in PlanStatusEnum}

Call(op, r) ==
    /\ entityPrev' = entity
    /\ entity' = r.plan
    /\ lastCall' = [op |-> op, err |-> r.err, made |-> lastCall.made]
    /\ UNCHANGED <<storeVars, adapter>>

Make(op, plan) ==
    /\ entityPrev' = plan
    /\ entity' = plan
    /\ lastCall' = [op |-> op, err |-> "None", made |-> TRUE]
    /\ UNCHANGED <<storeVars, adapter>>

CallCreateManual(note_id, plan_text) == Make("create_manual", create_manual(note_id, plan_text))

CallCreateAi(note_id, plan_text) == Make("create_ai", create_ai(note_id, plan_text))

CallAcceptAiProposal == Call("accept_ai_proposal", accept_ai_proposal(entity))

CallAcceptAiProposalAsHybrid(new_plan_text) ==
    Call("accept_ai_proposal_as_hybrid", accept_ai_proposal_as_hybrid(entity, new_plan_text))

CallUpdate(new_plan_text) == Call("update", update(entity, new_plan_text))

EntityInit ==
    /\ StoreInit
    /\ entity \in EntityInputs
    /\ entityPrev = entity
    /\ lastCall = NoCall
    /\ adapter = NoAdapter

EntityNext ==
    \/ \E t \in Texts : CallCreateManual(1, t)
    \/ \E t \in AiTexts : CallCreateAi(1, t)
    \/ CallAcceptAiProposal
    \/ \E t \in UpdateTexts : CallAcceptAiProposalAsHybrid(t)
    \/ \E t \in UpdateTexts : CallUpdate(t)

EntitySpec == EntityInit /\ [][EntityNext]_vars

(***************************************************************************)
(* The adapter on its own: it is constructed once, then asked for          *)
(* completions, the client answering each call in any of its ways.         *)
(***************************************************************************)
\* OpenRouterService.__init__: an empty api_key raises ValueError and no
\* service exists
NewOpenRouterService(api_key, timeout_seconds) ==
    /\ ~adapter.constructed
    /\ adapter' = IF api_key = ""
                  THEN [NoAdapter EXCEPT !.result =
                            AdapterRaise("ValueError", "OpenRouter API key is required", 0)]
                  ELSE [NoAdapter EXCEPT !.constructed = TRUE,
                                         !.timeout_seconds = timeout_seconds]
    /\ UNCHANGED <<storeVars, entityVars>>

GenerateCompletion(outcome) ==
    /\ adapter.constructed
    /\ adapter' = [adapter EXCEPT !.called = TRUE,
                                  !.outcome = outcome,
                                  !.result = generate_completion(adapter, outcome)]
    /\ UNCHANGED <<storeVars, entityVars>>

AdapterNext ==
    \/ \E k \in ApiKeys, t \in TimeoutSeconds : NewOpenRouterService(k, t)
    \/ \E o \in ClientOutcomes : GenerateCompletion(o)

AdapterSpec == Init /\ [][AdapterNext]_vars

(***************************************************************************)
(* Properties.                                                             *)
(***************************************************************************)
ActiveOf(note_id) == {i \in PlanIds : plans[i].note_id = note_id /\ plans[i].status = "ACTIVE"}

\* C1: every note has at most one stored plan with status ACTIVE, in every
\* state any interleaving of the four use cases reaches.
C1_AtMostOneActivePerNote ==
    \A n \in Notes : Cardinality(ActiveOf(n)) <= 1

\* the row a CreateOrAccept request with a generation id is about
Proposal(r) ==
    CHOOSE i \in PlanIds : /\ plans[i].generation_id = r.generation_id
                           /\ plans[i].note_id = r.note_id

\* C2: of two CreateOrAccept requests (accept or hybrid) that run concurrently
\* on the same pending proposal, each one ends either by succeeding, having
\* moved the proposal from PENDING_AI to ACTIVE, or by failing with
\* PlanNotFoundError (or the entity's ValueError) because the other one has
\* moved it and changing nothing: so exactly one succeeds and the plan is mutated once.
C2_ExactlyOneConcurrentAcceptSucceeds ==
    [][\A p \in Procs :
        (req[p].op = "create_or_accept" /\ req[p].overlaps /\ pc'[p] = "idle") =>
            LET i == Proposal(req[p])
            IN  \/ /\ response'.kind = "ok"
                   /\ plans[i].status = "PENDING_AI"
                   /\ plans'[i].status = "ACTIVE"
                \/ /\ response'.kind \in {"PlanNotFoundError", "ValueError"}
                   /\ plans[i].status = "ACTIVE"
                   /\ plans' = plans]_vars

\* C3: a manual CreateOrAccept that has passed the conflict check inserts its
\* ACTIVE MANUAL plan whatever has been committed since that query (only a
\* generation id collision stops it), so two concurrent manual requests on a
\* note without ACTIVE plan both insert.
C3_ManualInsertIgnoresLaterConflict ==
    [][\A p \in Procs :
        (pc[p] = "manual_create" /\ pc'[p] = "idle") =>
            \/ /\ response'.kind = "ok"
               /\ response'.plan.id \notin PlanIds
               /\ plans' = plans @@ (response'.plan.id :> response'.plan)
               /\ response'.plan.status = "ACTIVE"
               /\ response'.plan.type = "MANUAL"
               /\ response'.plan.note_id = req[p].note_id
            \/ /\ response'.kind = "IntegrityError"
               /\ plans' = plans]_vars

C3_TwoActiveManualPlans ==
    \E i, j \in PlanIds :
        /\ i # j
        /\ plans[i].note_id = plans[j].note_id
        /\ plans[i].status = "ACTIVE" /\ plans[j].status = "ACTIVE"
        /\ plans[i].type = "MANUAL" /\ plans[j].type = "MANUAL"

\* C4: accept_ai_proposal and accept_ai_proposal_as_hybrid succeed only on a
\* PENDING_AI plan; on a plan in any other status they raise (ValueError is
\* the code's invalid-state error) and leave the plan as it was.
C4_AcceptRequiresPending ==
    lastCall.op \in {"accept_ai_proposal", "accept_ai_proposal_as_hybrid"} =>
        IF entityPrev.status = "PENDING_AI"
        THEN lastCall.err = "None" /\ entity.status = "ACTIVE"
        ELSE lastCall.err = "ValueError" /\ entity = entityPrev

C4_HybridAcceptRefused ==
    /\ lastCall.op = "accept_ai_proposal_as_hybrid"
    /\ entityPrev.status = "ARCHIVED"
    /\ lastCall.err = "ValueError"

\* C5: update succeeds only on an ACTIVE plan; on a PENDING_AI or ARCHIVED
\* plan it raises (ValueError) and leaves text, type and status as they were.
C5_UpdateRequiresActive ==
    lastCall.op = "update" =>
        IF entityPrev.status = "ACTIVE"
        THEN lastCall.err = "None" /\ entity.status = "ACTIVE"
        ELSE lastCall.err = "ValueError" /\ entity = entityPrev

C5_UpdateRefused ==
    /\ lastCall.op = "update"
    /\ entityPrev.status = "PENDING_AI"
    /\ lastCall.err = "ValueError"

\* C6: whatever method is called on a plan made by create_ai or
\* create_manual, its type changes only from AI to HYBRID: MANUAL stays
\* MANUAL, HYBRID stays HYBRID, nothing becomes AI or MANUAL.
C6_TypeOnlyWidens ==
    lastCall.made =>
        /\ entity.type # entityPrev.type => (entityPrev.type = "AI" /\ entity.type = "HYBRID")
        /\ entityPrev.type = "MANUAL" => entity.type = "MANUAL"
        /\ entityPrev.type = "HYBRID" => entity.type = "HYBRID"

C6_UpdateWidenedAi ==
    /\ lastCall.made
    /\ lastCall.op = "update"
    /\ lastCall.err = "None"
    /\ entityPrev.type = "AI"
    /\ entity.type = "HYBRID"

\* C7: a stored plan that is ACTIVE is still stored and ACTIVE after every
\* step, and no stored plan is ever ARCHIVED.
C7_ActiveIsFinal ==
    /\ [][\A i \in PlanIds :
            plans[i].status = "ACTIVE" => (i \in DOMAIN plans' /\ plans'[i].status = "ACTIVE")]_vars
    /\ [](\A i \in PlanIds : plans[i].status # "ARCHIVED")

C7_ActivePlanUpdated ==
    /\ response.op = "update"
    /\ response.kind = "ok"
    /\ response.plan.id \in PlanIds
    /\ plans[response.plan.id].status = "ACTIVE"
    /\ plans[response.plan.id].updated_at # plans[response.plan.id].created_at

\* C8: no two stored plans share a generation id, whether they are AI
\* proposals or MANUAL plans.
C8_GenerationIdUnique ==
    \A i, j \in PlanIds : i # j => plans[i].generation_id # plans[j].generation_id

C8_CollidingInsertRefused ==
    /\ response.kind = "IntegrityError"
    /\ \E i, j \in PlanIds : plans[i].type = "AI" /\ plans[j].type = "MANUAL"

\* C9: the id, generation id and note id of a stored plan never change.
C9_IdentityImmutable ==
    [][\A i \in PlanIds :
        /\ i \in DOMAIN plans'
        /\ plans'[i].id = plans[i].id
        /\ plans'[i].generation_id = plans[i].generation_id
        /\ plans'[i].note_id = plans[i].note_id]_vars

C9_AcceptedThenEdited ==
    \E i \in PlanIds :
        /\ plans[i].type = "HYBRID"
        /\ plans[i].status = "ACTIVE"
        /\ plans[i].updated_at # plans[i].created_at
        /\ plans[i].generation_id # NoGen

\* C10: the lookup by (generation id, note id, status) returns a stored plan
\* with exactly these three values or PlanNotFoundError; for the generation
\* id of a stored plan asked with another note or another status it is
\* PlanNotFoundError; and a task that is past its FOR UPDATE lookup holds
\* the stored pending proposal of its own generation id and note.
C10_LookupMatchesAllThree ==
    /\ \A g \in GenIds, n \in Notes \cup {3}, st \in PlanStatusEnum :
        LET r == get_by_generation_id_and_note_id_and_status(g, n, st)
        IN  /\ r.err \in {"None", "PlanNotFoundError"}
            /\ r.err = "None" =>
                    /\ r.plan.id \in PlanIds /\ plans[r.plan.id] = r.plan
                    /\ r.plan.generation_id = g
                    /\ r.plan.note_id = n
                    /\ r.plan.status = st
            /\ (\E i \in PlanIds : /\ plans[i].generation_id = g
                                   /\ (plans[i].note_id # n \/ plans[i].status # st))
                    => r.err = "PlanNotFoundError"
    /\ \A p \in Procs : pc[p] \in {"accept_save", "hybrid_save"} =>
            /\ req[p].ent.generation_id = req[p].generation_id
            /\ req[p].ent.note_id = req[p].note_id
            /\ req[p].ent.status = "PENDING_AI"
            /\ plans[req[p].ent.id] = req[p].ent

C10_KnownGenerationNotFound ==
    /\ response.op = "create_or_accept"
    /\ response.kind = "PlanNotFoundError"
    /\ \A g \in GenIds : \E i \in PlanIds : plans[i].generation_id = g


\* C11: the strategy a CreateOrAccept request runs is fixed by which of
\* generation id and plan text it carries: generation id without text runs
\* AcceptAI, both run CreateHybrid, text without generation id runs
\* CreateManual, and a request with neither runs no strategy, whatever the
\* note, the user and the stored plans are.
C11_StrategyByPresence ==
    \A p \in Procs :
        /\ pc[p] \in {"accept_lookup", "accept_save"} <=>
                /\ req[p].op = "create_or_accept"
                /\ req[p].generation_id # NoGen /\ req[p].plan_text = NoText
        /\ pc[p] \in {"hybrid_lookup", "hybrid_save"} <=>
                /\ req[p].op = "create_or_accept"
                /\ req[p].generation_id # NoGen /\ req[p].plan_text # NoText
        /\ pc[p] = "manual_create" =>
                /\ req[p].op = "create_or_accept"
                /\ req[p].generation_id = NoGen /\ req[p].plan_text # NoText
        /\ (req[p].op = "create_or_accept" /\ req[p].generation_id = NoGen) =>
                pc[p] \in {"conflict_check", "manual_create"}

C11_HybridChosenBesideActivePlan ==
    \E p \in Procs :
        /\ pc[p] = "hybrid_lookup"
        /\ req[p].note_id = 2
        /\ ActiveOf(2) # {}


\* C12 as stated: a CreateOrAccept on an owned note with neither generation
\* id nor plan text ends with the validation error (ValueError) in every
\* store state, without creating or changing a plan.
C12_NoInputAlwaysValidationError ==
    [][\A p \in Procs :
        (pc[p] = "conflict_check" /\ req[p].plan_text = NoText /\ pc'[p] # pc[p]) =>
            /\ pc'[p] = "idle"
            /\ response'.op = "create_or_accept"
            /\ response'.kind = "ValueError"
            /\ plans' = plans]_vars

\* C12: a CreateOrAccept on an owned note with neither generation id nor
\* plan text runs no strategy and creates or changes no plan; it ends with
\* the validation error (ValueError) when the note has no ACTIVE plan at
\* the conflict query, and with PlanConflictError when it has one.
C12_NoInputRejectedBeforeStrategy ==
    [][\A p \in Procs :
        (pc[p] = "conflict_check" /\ req[p].plan_text = NoText /\ pc'[p] # pc[p]) =>
            /\ pc'[p] = "idle"
            /\ response'.op = "create_or_accept"
            /\ response'.kind = IF ActiveOf(req[p].note_id) # {}
                                THEN "PlanConflictError" ELSE "ValueError"
            /\ plans' = plans]_vars

C12_ValidationErrorReturned ==
    /\ response.op = "create_or_accept"
    /\ response.kind = "ValueError"
    /\ \E n \in Notes : ActiveOf(n) # {}


\* C13: a request of any of the four use cases starts with the note lookup:
\* either the note exists and belongs to the requesting user and the request
\* goes on, or the request ends at once with NoteNotFoundError, and then no
\* profile is read, no text generated, no plan read, created or changed and
\* no other request disturbed.
C13_NoteCheckedFirst ==
    [][clock' # clock =>
        \/ /\ response'.kind = "NoteNotFoundError"
           /\ response'.op \in {"generate", "create_or_accept", "get_active", "update"}
           /\ response'.plan = NoPlan
           /\ UNCHANGED <<plans, nextId, pc, req>>
        \/ \E p \in Procs :
            /\ pc[p] = "idle" /\ pc'[p] # "idle"
            /\ req'[p].note_id \in Notes
            /\ NoteOwner(req'[p].note_id) = req'[p].user_id
            /\ req'[p].prefs = "none" /\ req'[p].ent = NoPlan
            /\ UNCHANGED <<plans, nextId, response>>]_vars

C13_GenerateForForeignNoteRefused ==
    /\ response.op = "generate"
    /\ response.kind = "NoteNotFoundError"
    /\ plans # <<>>


\* C14: a manual CreateOrAccept (plan text, no generation id) on an owned
\* note ends with PlanConflictError and an unchanged store when the note has
\* an ACTIVE plan at the conflict query; otherwise it goes on to the INSERT,
\* which adds exactly one row, MANUAL and ACTIVE, of that note and with the
\* text of the request, and returns it (the INSERT is refused, and nothing
\* added, only if the generation id drawn for the row is already in use).
C14_ManualCreateOrConflict ==
    [][\A p \in Procs :
        /\ (pc[p] = "conflict_check" /\ req[p].plan_text # NoText /\ pc'[p] # pc[p]) =>
                /\ plans' = plans
                /\ IF ActiveOf(req[p].note_id) # {}
                   THEN /\ pc'[p] = "idle"
                        /\ response'.kind = "PlanConflictError"
                        /\ response'.op = "create_or_accept"
                   ELSE /\ pc'[p] = "manual_create"
                        /\ response' = response
        /\ (pc[p] = "manual_create" /\ pc'[p] # pc[p]) =>
                /\ pc'[p] = "idle"
                /\ \/ /\ response'.kind = "ok"
                      /\ response'.plan.id \notin PlanIds
                      /\ DOMAIN plans' = PlanIds \cup {response'.plan.id}
                      /\ \A i \in PlanIds : plans'[i] = plans[i]
                      /\ plans'[response'.plan.id] = response'.plan
                      /\ response'.plan.type = "MANUAL"
                      /\ response'.plan.status = "ACTIVE"
                      /\ response'.plan.note_id = req[p].note_id
                      /\ response'.plan.plan_text = req[p].plan_text
                   \/ /\ response'.kind = "IntegrityError"
                      /\ \E i \in PlanIds : plans[i].generation_id \in GenIds
                      /\ plans' = plans]_vars

C14_ManualPlanBesideProposal ==
    /\ response.op = "create_or_accept"
    /\ response.kind = "ok"
    /\ response.plan.type = "MANUAL"
    /\ ActiveOf(response.plan.note_id) = {response.plan.id}
    /\ \E i \in PlanIds : /\ plans[i].note_id = response.plan.note_id
                          /\ plans[i].status = "PENDING_AI"


\* C15: a CreateOrAccept with a generation id never makes the conflict
\* query and never ends with PlanConflictError; once it has found its
\* PENDING_AI proposal, as accept or as hybrid, it succeeds and the
\* proposal becomes ACTIVE, whether or not the note has an ACTIVE plan.
C15_ProposalAcceptedDespiteActivePlan ==
    [][\A p \in Procs :
        (req[p].op = "create_or_accept" /\ req[p].generation_id # NoGen) =>
            /\ pc[p] # "conflict_check" /\ pc'[p] # "conflict_check"
            /\ pc'[p] = "idle" => response'.kind # "PlanConflictError"
            /\ (pc[p] \in {"accept_save", "hybrid_save"} /\ pc'[p] # pc[p]) =>
                    /\ response'.kind = "ok"
                    /\ plans'[req[p].ent.id].status = "ACTIVE"]_vars


C17_HybridReturnsTheProposal ==
    [][\A p \in Procs :
        /\ (pc[p] = "hybrid_lookup" /\ pc'[p] # pc[p]
                /\ WhereGenerationNoteStatus(req[p].generation_id, req[p].note_id, "PENDING_AI") # {}) =>
                /\ pc'[p] = "hybrid_save"
                /\ req'[p].ent.id \in PlanIds
                /\ req'[p].ent = plans[req'[p].ent.id]
        /\ (pc[p] = "hybrid_save" /\ pc'[p] # pc[p]) =>
                LET id == req[p].ent.id
                IN  /\ pc'[p] = "idle"
                    /\ response'.op = "create_or_accept"
                    /\ response'.kind = "ok"
                    /\ response'.plan.id = id
                    /\ response'.plan.generation_id = req[p].generation_id
                    /\ response'.plan.plan_text = req[p].plan_text
                    /\ response'.plan.status = "ACTIVE"
                    /\ response'.plan.type = "HYBRID"
                    /\ plans'[id] = response'.plan]_vars


\* C18: a CreateOrAccept whose generation id belongs to no PENDING_AI plan
\* of its note (never drawn, drawn for a plan of another note, or of a plan
\* that is not PENDING_AI any more) ends at the lookup with
\* PlanNotFoundError: nothing is saved and no stored plan changes.
C18_UnknownProposalNotFound ==
    [][\A p \in Procs :
        (/\ pc[p] \in {"accept_lookup", "hybrid_lookup"}
         /\ pc'[p] # pc[p]
         /\ ~\E i \in PlanIds : /\ plans[i].generation_id = req[p].generation_id
                                /\ plans[i].note_id = req[p].note_id
                                /\ plans[i].status = "PENDING_AI") =>
            /\ pc'[p] = "idle"
            /\ response'.op = "create_or_accept"
            /\ response'.kind = "PlanNotFoundError"
            /\ response'.generation_id = req[p].generation_id
            /\ plans' = plans
            /\ nextId' = nextId]_vars

C18_ProposalOfAnotherNoteNotFound ==
    /\ response.kind = "PlanNotFoundError"
    /\ \E i \in PlanIds : /\ plans[i].generation_id = response.generation_id
                          /\ plans[i].status = "PENDING_AI"


\* C19: once the plan with generation id G is ACTIVE (a CreateOrAccept with
\* G has succeeded, or the plan was created manually), every CreateOrAccept
\* with G, with or without text, for any note, ends with PlanNotFoundError
\* and changes no stored plan.
C19_AcceptIsOneShot ==
    [][\A p \in Procs :
        (/\ req[p].op = "create_or_accept"
         /\ req[p].generation_id # NoGen
         /\ pc'[p] # pc[p]
         /\ \E i \in PlanIds : /\ plans[i].generation_id = req[p].generation_id
                               /\ plans[i].status = "ACTIVE") =>
            /\ pc[p] \in {"accept_lookup", "hybrid_lookup"}
            /\ pc'[p] = "idle"
            /\ response'.kind = "PlanNotFoundError"
            /\ response'.generation_id = req[p].generation_id
            /\ plans' = plans]_vars

C19_SecondAcceptNotFound ==
    /\ response.kind = "PlanNotFoundError"
    /\ \E i \in PlanIds : /\ plans[i].generation_id = response.generation_id
                          /\ plans[i].status = "ACTIVE"
                          /\ plans[i].type = "AI"


\* C20: a Generate that reaches its INSERT adds exactly one row, of type AI
\* and status PENDING_AI, for its note and with the generated text, and
\* returns that row; for every note the ACTIVE plan GetActive would find is
\* the same before and after, none where there was none (the INSERT is
\* refused, and nothing added, only if the generation id drawn is in use).
C20_GenerateStoresProposalOnly ==
    [][\A p \in Procs :
        (pc[p] = "generate_store" /\ pc'[p] # pc[p]) =>
            /\ pc'[p] = "idle"
            /\ response'.op = "generate"
            /\ \A n \in Notes :
                    get_last_updated_by_note_id_and_status(n, "ACTIVE")'
                        = get_last_updated_by_note_id_and_status(n, "ACTIVE")
            /\ \/ /\ response'.kind = "ok"
                  /\ response'.plan.id \notin PlanIds
                  /\ DOMAIN plans' = PlanIds \cup {response'.plan.id}
                  /\ \A i \in PlanIds : plans'[i] = plans[i]
                  /\ plans'[response'.plan.id] = response'.plan
                  /\ response'.plan.type = "AI"
                  /\ response'.plan.status = "PENDING_AI"
                  /\ response'.plan.note_id = req[p].note_id
                  /\ response'.plan.plan_text = req[p].plan_text
                  /\ response'.plan.plan_text \in AiTexts
                  /\ response'.plan.generation_id \in GenIds
               \/ /\ response'.kind = "IntegrityError"
                  /\ plans' = plans]_vars

C20_ProposalBesideActivePlan ==
    /\ response.op = "generate"
    /\ response.kind = "ok"
    /\ plans[response.plan.id] = response.plan
    /\ response.plan.status = "PENDING_AI"
    /\ ActiveOf(response.plan.note_id) # {}


C22_MissingProfileIsFatal ==
    [][\A p \in Procs :
        (pc[p] = "generate_text" /\ pc'[p] # pc[p] /\ req[p].user_id \notin Profiles) =>
            /\ pc'[p] = "idle"
            /\ response'.op = "generate"
            /\ response'.kind = "ProfileNotFoundError"
            /\ plans' = plans]_vars


C24_UpdateReplacesText ==
    [][\A p \in Procs :
        (pc[p] = "update_save" /\ pc'[p] # pc[p]) =>
            LET id == req[p].ent.id
            IN  /\ response'.op = "update" /\ response'.kind = "ok"
                /\ DOMAIN plans' = DOMAIN plans
                /\ \A i \in PlanIds \ {id} : plans'[i] = plans[i]
                /\ response'.plan = plans'[id]
                /\ plans'[id].plan_text = req[p].plan_text
                /\ plans'[id].status = "ACTIVE"
                /\ plans'[id].type = IF plans[id].type = "AI" THEN "HYBRID"
                                     ELSE plans[id].type]_vars


\* C26: when a request saves a mutated plan (accept, accept as hybrid,
\* Update), the stored row is still the row the request read: no other
\* request's write to it was committed in between
C26_MutationReadIsCurrentAtSave ==
    [][\A p \in Procs :
        (pc[p] \in {"accept_save", "hybrid_save", "update_save"} /\ pc'[p] # pc[p]) =>
            plans[req[p].ent.id] = req[p].ent]_vars


\* C25: the fetch step of an Update request on a note without an ACTIVE plan
\* ends the request with ActivePlanNotFoundError and writes nothing, and no
\* step of an Update request changes a plan stored with status PENDING_AI
C25_UpdateWithoutActivePlanNotFound ==
    [][\A p \in Procs :
        (req[p].op = "update" /\ pc'[p] # pc[p]) =>
            /\ \A i \in PlanIds : plans[i].status = "PENDING_AI" => plans'[i] = plans[i]
            /\ (/\ pc[p] = "update_fetch"
                /\ \A i \in PlanIds : ~(/\ plans[i].note_id = req[p].note_id
                                        /\ plans[i].status = "ACTIVE"))
               => /\ pc'[p] = "idle"
                  /\ response'.op = "update"
                  /\ response'.kind = "ActivePlanNotFoundError"
                  /\ response'.plan = NoPlan
                  /\ plans' = plans /\ nextId' = nextId]_vars

\* an Update found no ACTIVE plan on a note that has a PENDING_AI proposal
C25_UpdateBesideProposalNotFound ==
    /\ response.op = "update"
    /\ response.kind = "ActivePlanNotFoundError"
    /\ \A n \in Notes : \E i \in PlanIds : plans[i].note_id = n
    /\ \A i \in PlanIds : plans[i].status = "PENDING_AI"


\* C27: every stored plan with status PENDING_AI has type AI, and every
\* stored plan of type MANUAL or HYBRID has status ACTIVE
C27_StatusAndTypeConsistent ==
    \A i \in PlanIds :
        /\ plans[i].status = "PENDING_AI" => plans[i].type = "AI"
        /\ plans[i].type \in {"MANUAL", "HYBRID"} => plans[i].status = "ACTIVE"

\* a MANUAL plan and a proposal are stored on the same note
C27_ManualPlanAndProposalStored ==
    \E i, j \in PlanIds :
        /\ plans[i].note_id = plans[j].note_id
        /\ plans[i].type = "MANUAL" /\ plans[i].status = "ACTIVE"
        /\ plans[j].type = "AI" /\ plans[j].status = "PENDING_AI"


\* C28: a Generate request calls the adapter at most once: its call step
\* either returns, which is its one call, or ends the request with an error,
\* and writes no plan; a step of any request that writes to the plan table
\* writes one row and ends the request, so no request writes twice
C28_NoRetries ==
    /\ [](\A p \in Procs : req[p].calls <= 1)
    /\ [][\A p \in Procs :
            /\ (pc[p] = "generate_text"
                    /\ (pc'[p] # pc[p] \/ req'[p].calls # req[p].calls)) =>
                    /\ plans' = plans
                    /\ \/ pc'[p] = "generate_store" /\ req'[p].calls = 1
                       \/ /\ pc'[p] = "idle"
                          /\ response'.op = "generate"
                          /\ response'.kind # "ok"
            /\ (pc'[p] # pc[p] /\ plans' # plans) =>
                    /\ pc'[p] = "idle"
                    /\ Cardinality({i \in DOMAIN plans' :
                            i \notin DOMAIN plans \/ plans'[i] # plans[i]}) = 1]_vars

\* after a failed Generate request, a later one has made its one adapter
\* call and is about to store the proposal
C28_SecondGenerateCalledOnce ==
    /\ response.op = "generate"
    /\ response.kind = "PlanGenerationError"
    /\ \E p \in Procs : pc[p] = "generate_store" /\ req[p].calls = 1


\* C29: every successful save of a mutated plan (accept, accept as hybrid,
\* Update) leaves the plan's updated_at strictly greater than it was and
\* its created_at unchanged
C29_UpdatedAtGrowsOnEverySave ==
    [][\A p \in Procs :
        (/\ pc[p] \in {"accept_save", "hybrid_save", "update_save"}
         /\ pc'[p] # pc[p]
         /\ response'.kind = "ok") =>
            LET id == req[p].ent.id
            IN  /\ plans'[id].updated_at > plans[id].updated_at
                /\ plans'[id].created_at = plans[id].created_at]_vars


\* C30: for every note and status the last-updated lookup returns nothing
\* when the note has no plan with that status, and otherwise a stored plan
\* of that note and status whose updated_at no plan of that note and status
\* exceeds
C30_LastUpdatedIsGreatest ==
    \A n \in Notes, st \in PlanStatusEnum :
        LET found == get_last_updated_by_note_id_and_status(n, st)
            among == {i \in PlanIds : plans[i].note_id = n /\ plans[i].status = st}
        IN  /\ among = {} => found = {}
            /\ among # {} => found # {}
            /\ \A plan \in found :
                /\ plan.id \in among
                /\ plan = plans[plan.id]
                /\ \A k \in among : plans[k].updated_at <= plan.updated_at

\* GetActive returned the later updated of two ACTIVE plans of a note
C30_LaterOfTwoActiveReturned ==
    /\ response.op = "get_active"
    /\ response.kind = "ok"
    /\ response.plan.id \in PlanIds
    /\ response.plan = plans[response.plan.id]
    /\ \E i \in PlanIds :
        /\ plans[i].note_id = response.plan.note_id
        /\ plans[i].status = "ACTIVE"
        /\ plans[i].updated_at < response.plan.updated_at


\* C31: when an accept and a hybrid accept of the same proposal overlap, a
\* save step of either one that succeeds leaves the proposal ACTIVE either
\* as type AI with the text it had or as type HYBRID with the request's
\* text, a save step that fails writes nothing, and no stored plan of type
\* AI ever holds a text a client sent
C31_AcceptAndHybridDoNotMix ==
    /\ [](\A i \in PlanIds : plans[i].type = "AI" => plans[i].plan_text \in AiTexts)
    /\ [][\A p \in Procs :
            (/\ pc[p] \in {"accept_save", "hybrid_save"}
             /\ pc'[p] # pc[p]
             /\ req[p].overlaps) =>
                LET id == req[p].ent.id
                IN  IF response'.kind = "ok"
                    THEN /\ plans[id].status = "PENDING_AI"
                         /\ plans[id].type = "AI"
                         /\ \/ plans'[id] = [plans[id] EXCEPT !.status = "ACTIVE",
                                                !.updated_at = plans'[id].updated_at]
                            \/ plans'[id] = [plans[id] EXCEPT !.status = "ACTIVE",
                                                !.type = "HYBRID",
                                                !.plan_text = req[p].plan_text,
                                                !.updated_at = plans'[id].updated_at]
                    ELSE plans' = plans]_vars

\* the accept has made the proposal ACTIVE with its AI text while a hybrid
\* accept of the same proposal is in flight
C31_AcceptWonAgainstHybrid ==
    /\ response.op = "create_or_accept"
    /\ response.kind = "ok"
    /\ response.plan.type = "AI"
    /\ response.plan.status = "ACTIVE"
    /\ \E p \in Procs :
        /\ pc[p] = "hybrid_lookup"
        /\ req[p].overlaps
        /\ req[p].generation_id = response.plan.generation_id
        /\ req[p].note_id = response.plan.note_id
        /\ response.plan = plans[response.plan.id]


\* C32: under fair scheduling every CreateOrAccept request completes; a
\* task without a request holds no row lock, and the holder of a row lock
\* is never itself waiting, its next statement can run
C32_CreateOrAcceptCompletes ==
    /\ \A p \in Procs : (req[p].op = "create_or_accept") ~> (pc[p] = "idle")
    /\ [](\A p \in Procs : pc[p] = "idle" => req[p].lock = NoId)
    /\ [](\A p \in Procs : req[p].lock # NoId => ENABLED AcceptProceed(p))

\* a CreateOrAccept request waits at its lookup for the row lock another
\* request holds on the proposal
C32_RequestWaitsForRowLock ==
    \E p, q \in Procs :
        /\ p # q
        /\ req[p].lock # NoId
        /\ pc[q] \in {"accept_lookup", "hybrid_lookup"}
        /\ req[p].lock \in WhereGenerationNoteStatus(req[q].generation_id,
                                                     req[q].note_id, "PENDING_AI")
        /\ ~ENABLED AcceptProceed(q)


\* C33: a step that changes a plan stored with status PENDING_AI is a step
\* of a CreateOrAccept request that carries the generation_id and the
\* note_id of that plan; every other step leaves the proposal as it is
C33_ProposalChangedOnlyByItsAccept ==
    [][\A i \in PlanIds :
        (plans[i].status = "PENDING_AI" /\ plans'[i] # plans[i]) =>
            \E p \in Procs :
                /\ pc'[p] # pc[p]
                /\ req[p].op = "create_or_accept"
                /\ req[p].generation_id = plans[i].generation_id
                /\ req[p].note_id = plans[i].note_id]_vars

\* a proposal is still pending and untouched after a manual plan was
\* created on its note and then updated
C33_ProposalUntouchedBesideUpdatedPlan ==
    /\ response.op = "update"
    /\ response.kind = "ok"
    /\ response.plan.updated_at > response.plan.created_at
    /\ \E i \in PlanIds :
        /\ plans[i].note_id = response.plan.note_id
        /\ plans[i].status = "PENDING_AI"
        /\ plans[i].type = "AI"
        /\ plans[i].plan_text \in AiTexts
        /\ plans[i].updated_at = plans[i].created_at


\* C34: a step of a request addressed to note n changes no stored plan of
\* another note, and a plan it inserts belongs to note n
C34_RequestsTouchOnlyTheirNote ==
    [][\A p \in Procs :
        (pc[p] # "idle" /\ pc'[p] # pc[p]) =>
            /\ \A i \in PlanIds :
                plans[i].note_id # req[p].note_id => plans'[i] = plans[i]
            /\ \A i \in DOMAIN plans' \ PlanIds :
                plans'[i].note_id = req[p].note_id]_vars

\* a CreateOrAccept with the generation id of a proposal of another note
\* has failed, the proposal is as it was stored, and the other note has a
\* plan of its own
C34_ForeignProposalLeftAlone ==
    /\ response.op = "create_or_accept"
    /\ response.kind = "PlanNotFoundError"
    /\ \E i, j \in PlanIds :
        /\ plans[i].generation_id = response.generation_id
        /\ plans[i].status = "PENDING_AI"
        /\ plans[i].updated_at = plans[i].created_at
        /\ plans[j].note_id # plans[i].note_id


\* C35: no step removes a stored plan; a step that ends a Generate request
\* or a manual CreateOrAccept with success adds exactly one plan id, and
\* every other step leaves the set of plan ids as it is
C35_PlanIdsOnlyGrow ==
    [][/\ DOMAIN plans \subseteq DOMAIN plans'
       /\ \A p \in Procs :
            pc'[p] # pc[p] =>
                IF /\ pc[p] \in {"generate_store", "manual_create"}
                   /\ response'.kind = "ok"
                THEN Cardinality(DOMAIN plans') = Cardinality(DOMAIN plans) + 1
                ELSE DOMAIN plans' = DOMAIN plans]_vars

\* a proposal was generated and accepted: one plan is stored
C35_AcceptAddedNoPlan ==
    /\ response.op = "create_or_accept"
    /\ response.kind = "ok"
    /\ response.plan.type = "AI"
    /\ response.plan.status = "ACTIVE"
    /\ Cardinality(PlanIds) = 1


\* C36: the note of every stored plan has a row, and the commit of a
\* DeleteNote removes the note, every plan of it and no other plan
C36_PlansReferToExistingNotes ==
    /\ [](\A i \in PlanIds : plans[i].note_id \in notes)
    /\ [][\A p \in Procs :
            (pc[p] = "delete_commit" /\ pc'[p] # pc[p]) =>
                /\ notes' = notes \ {req[p].note_id}
                /\ \A i \in PlanIds :
                    IF plans[i].note_id = req[p].note_id
                    THEN i \notin DOMAIN plans'
                    ELSE i \in DOMAIN plans' /\ plans'[i] = plans[i]
                /\ DOMAIN plans' \subseteq PlanIds]_vars

\* a note was deleted with the plan it had, the plan of the other note is
\* still stored
C36_NoteDeletedWithItsPlan ==
    /\ response.op = "delete_note"
    /\ response.kind = "ok"
    /\ Cardinality(notes) = 1
    /\ nextId = 3
    /\ Cardinality(PlanIds) = 1
    /\ \A i \in PlanIds : plans[i].note_id \in notes


\* C37: the plan_text of every stored plan is at most PLANS_TEXT_MAX_LENGTH
\* long, whether Generate, a manual create, an accept or an Update wrote it
C37_PlanTextWithinMaxLength ==
    \A i \in PlanIds : Len(plans[i].plan_text) <= PLANS_TEXT_MAX_LENGTH

\* the generated text was too long and its INSERT was refused, beside a
\* stored plan
C37_TooLongProposalRefused ==
    /\ response.op = "generate"
    /\ response.kind = "DataError"
    /\ PlanIds # {}


\* C39: a CreateOrAccept request whose plan_text is the empty text is
\* treated as one with a text: with a generation_id it takes the hybrid
\* path and its save makes the proposal an ACTIVE HYBRID plan with the
\* empty text; without one it takes the manual path, whose INSERT stores
\* an ACTIVE MANUAL plan with the empty text
C39_EmptyTextIsPresent ==
    [][\A p \in Procs :
        /\ (/\ pc[p] = "idle" /\ pc'[p] # "idle"
            /\ req'[p].op = "create_or_accept" /\ req'[p].plan_text = "") =>
                pc'[p] = IF req'[p].generation_id # NoGen THEN "hybrid_lookup"
                         ELSE "conflict_check"
        /\ (/\ req[p].op = "create_or_accept" /\ req[p].plan_text = ""
            /\ pc'[p] # pc[p]) =>
                CASE pc[p] = "conflict_check" ->
                        \/ pc'[p] = "manual_create"
                        \/ pc'[p] = "idle" /\ response'.kind = "PlanConflictError"
                  [] pc[p] = "manual_create" ->
                        \/ response'.kind = "IntegrityError"
                        \/ /\ response'.kind = "ok"
                           /\ response'.plan.type = "MANUAL"
                           /\ response'.plan.status = "ACTIVE"
                           /\ response'.plan.plan_text = ""
                           /\ plans'[response'.plan.id] = response'.plan
                  [] pc[p] = "hybrid_lookup" ->
                        \/ pc'[p] = "hybrid_save"
                        \/ pc'[p] = "idle" /\ response'.kind = "PlanNotFoundError"
                  [] pc[p] = "hybrid_save" ->
                        /\ response'.kind = "ok"
                        /\ response'.plan.type = "HYBRID"
                        /\ response'.plan.status = "ACTIVE"
                        /\ response'.plan.plan_text = ""
                        /\ plans'[response'.plan.id] = response'.plan
                  [] OTHER -> FALSE]_vars


\* C38: a call of the adapter's generate_completion returns a text that is
\* not empty, the content of the completion's first choice, or it raises
\* AIServiceTimeoutError exactly when the client call raised TimeoutError,
\* AIServiceUnavailableError exactly when it raised a ConnectionError, and
\* AIModelError exactly on every other failure: another exception of the
\* client, a completion without choices, or a first choice whose content is
\* None or empty. Nothing else leaves it.
C38_AdapterReturnsTextOrOneOfThreeErrors ==
    adapter.called =>
        LET o == adapter.outcome
            r == adapter.result
            empty == o.raises = "None"
                     /\ (o.choices = <<>> \/ o.choices[1] \in {NoText, ""})
        IN  /\ r.err \in {"None", "ai.AIServiceTimeoutError",
                          "ai.AIServiceUnavailableError", "ai.AIModelError"}
            /\ r.err = "None" <=> (o.raises = "None" /\ ~empty)
            /\ r.err = "None" => r.value = o.choices[1] /\ Len(r.value) > 0
            /\ r.err = "ai.AIServiceTimeoutError" <=> o.raises = "TimeoutError"
            /\ r.err = "ai.AIServiceTimeoutError" =>
                    r.timeout_seconds = adapter.timeout_seconds
            /\ r.err = "ai.AIServiceUnavailableError"
                    <=> o.raises \in {"ConnectionError", "ConnectionRefusedError"}
            /\ r.err = "ai.AIModelError"
                    <=> (empty \/ o.raises \in {"OSError", "RuntimeError", "ValueError"})

C38_EmptyContentRaisedModelError ==
    /\ adapter.called
    /\ adapter.outcome.raises = "None"
    /\ Len(adapter.outcome.choices) = 1
    /\ adapter.outcome.choices[1] = ""
    /\ adapter.result.err = "ai.AIModelError"
    /\ adapter.result.message = "Empty response from AI service"

====
